---------------------------- MODULE Spec2Model ----------------------------
(***************************************************************************)
(* examples/advanced/dxl_reacher.py: the trainer process (main) and the   *)
(* plotting process (plot_dxl_reacher), coordinated through the shared    *)
(* record shared_returns and the flag plot_running.                       *)
(*                                                                         *)
(* Returns are integers here; an averaged return is an exact rational     *)
(* <<numerator, denominator>> in lowest terms with a positive denominator. *)
(* The iteration counter `count` of the plotting loop is written and      *)
(* never read; it is left out.                                             *)
(***************************************************************************)
EXTENDS Integers, Sequences, FiniteSets

VARIABLES
    main_pc,              \* position of main
    cb_pc,                \* position of kindred_callback inside learn
    seg,                  \* the batch handed to the callback: ep_rets, ep_lens
    shared_returns,       \* Manager().dict: write_lock, episodic_returns, episodic_lengths
    plot_running,         \* Value('i', 1)
    env_closed,           \* env.close() has been called
    pp_pc,                \* position of the plotting process
    old_size,             \* locals of plot_dxl_reacher ...
    copied_returns,
    returns,
    ep_lens,
    cum_episode_lengths,
    steps_show,
    rets,
    hl11,                 \* the learning-curve line: xdata, ydata
    ax2,                  \* the learning-curve axes: xlim, ylim
    saved                 \* number of times <tag>.png was written

vars == <<main_pc, cb_pc, seg, shared_returns, plot_running, env_closed, pp_pc,
          old_size, copied_returns, returns, ep_lens, cum_episode_lengths,
          steps_show, rets, hl11, ax2, saved>>

main_vars == <<main_pc, cb_pc, seg, shared_returns, plot_running, env_closed>>
plot_locals == <<old_size, copied_returns, returns, ep_lens, cum_episode_lengths,
                 steps_show, rets, hl11, ax2>>

-----------------------------------------------------------------------------
(* Bounds *)
MaxEpisodes == 3

(* Episodes the learning routine may report during training. *)
TrainRets == {0, 1}
TrainLens == {500, 1000}

(* Episodes of the records the plotting routine is exercised on. *)
PlotRets == {-1, 0, 1, 2, 3}
PlotLens == {500, 1000, 5000}

(* Program constants *)
batch_size == 2048
window_size_steps == 5000
x_tick == 1000

-----------------------------------------------------------------------------
(* Sequences and numbers *)

Max2(a, b) == IF a >= b THEN a ELSE b

Abs(a) == IF a >= 0 THEN a ELSE -a

RECURSIVE Gcd(_, _)
Gcd(a, b) == IF b = 0 THEN a ELSE Gcd(b, a % b)

\* a rational in lowest terms, positive denominator
Rat(n, d) ==
    LET g == Gcd(Abs(n), Abs(d))
        s == IF d < 0 THEN -1 ELSE 1
    IN  <<(s * n) \div g, (s * d) \div g>>

RatLeq(a, b) == a[1] * b[2] <= b[1] * a[2]

RatSub(a, b) == Rat(a[1] * b[2] - b[1] * a[2], a[2] * b[2])

RatAdd(a, b) == Rat(a[1] * b[2] + b[1] * a[2], a[2] * b[2])

RatAbs(a) == <<Abs(a[1]), a[2]>>

RECURSIVE SeqSum(_)
SeqSum(s) == IF s = <<>> THEN 0 ELSE s[1] + SeqSum(Tail(s))

Last(s) == s[Len(s)]

\* np.cumsum
cumsum(s) == [k \in 1..Len(s) |-> SeqSum(SubSeq(s, 1, k))]

\* np.arange(start, stop, step), step > 0
arange(start, stop, step) ==
    LET n == IF stop > start THEN (stop - start + step - 1) \div step ELSE 0
    IN  [k \in 1..n |-> start + (k - 1) * step]

\* np.mean of a non-empty array
mean(s) == Rat(SeqSum(s), Len(s))

\* ndarray.any(): some element is non-zero
any(s) == \E k \in 1..Len(s) : s[k] # 0

\* np.max, np.min of a non-empty list of rationals
np_max(s) == CHOOSE r \in {s[k] : k \in 1..Len(s)} : \A k \in 1..Len(s) : RatLeq(s[k], r)
np_min(s) == CHOOSE r \in {s[k] : k \in 1..Len(s)} : \A k \in 1..Len(s) : RatLeq(r, s[k])

-----------------------------------------------------------------------------
(* plot_dxl_reacher: the learning-curve computation, lines 160-185 *)

\* line 165-168: the recorded lengths, or batch_size * np.arange(len(returns))
EpLens(copied) ==
    IF copied.episodic_lengths # <<>>
    THEN copied.episodic_lengths
    ELSE [k \in 1..Len(copied.episodic_returns) |-> batch_size * (k - 1)]

\* line 176-177: the boolean mask of iteration i (0-based) at cumulative length c
InWindow(i, c) ==
    /\ c > Max2(0, x_tick * (i + 1) - window_size_steps)
    /\ c < x_tick * (i + 1)

\* returns[mask]: the returns whose mask entry is true, in order
RECURSIVE Masked(_, _, _)
Masked(rs, cs, i) ==
    IF rs = <<>> THEN <<>>
    ELSE (IF InWindow(i, cs[1]) THEN <<rs[1]>> ELSE <<>>)
            \o Masked(Tail(rs), Tail(cs), i)

rets_in_window(rs, cs, i) == Masked(rs, cs, i)

\* line 178: the test that lets iteration i append its mean
Appends(w) == any(w)

\* lines 173-179: the loop over range(len(steps_show)), from iteration i on
RECURSIVE RetsLoop(_, _, _, _)
RetsLoop(rs, cs, i, n) ==
    IF i >= n THEN <<>>
    ELSE LET w == rets_in_window(rs, cs, i)
         IN  (IF Appends(w) THEN <<mean(w)>> ELSE <<>>) \o RetsLoop(rs, cs, i + 1, n)

\* the end point left out: np.arange(x_tick, cum_episode_lengths[-1], x_tick)
StepsShow_exclusive(cs) == arange(x_tick, Last(cs), x_tick)

\* line 172
StepsShow(cs) == arange(x_tick, Last(cs) + 1, x_tick)

\* line 181: np.arange(1, len(rets) + 1) * x_tick
XData(rs) == [k \in 1..Len(arange(1, Len(rs) + 1, 1)) |-> arange(1, Len(rs) + 1, 1)[k] * x_tick]

\* lines 184-185
YLim(rs) ==
    LET buffer == RatAbs(RatSub(np_max(rs), np_min(rs)))
        b5 == Rat(buffer[1] * 5, buffer[2] * 100)
    IN  <<RatSub(np_min(rs), b5), RatAdd(np_max(rs), b5)>>

-----------------------------------------------------------------------------
EmptyRecord == [write_lock |-> FALSE, episodic_returns |-> <<>>, episodic_lengths |-> <<>>]

\* batches of at most n episodes, as parallel lists of returns and lengths
RECURSIVE SeqsOf(_, _)
SeqsOf(S, n) ==
    IF n = 0 THEN {<<>>}
    ELSE LET shorter == SeqsOf(S, n - 1)
         IN  shorter \cup {Append(s, x) : s \in {t \in shorter : Len(t) = n - 1}, x \in S}

Segs(n) ==
    {[ep_rets |-> r, ep_lens |-> l] :
        r \in SeqsOf(TrainRets, n) \ {<<>>}, l \in SeqsOf(TrainLens, n) \ {<<>>}}

NoSeg == [ep_rets |-> <<>>, ep_lens |-> <<>>]

PlotLocalsInit ==
    /\ old_size = 0
    /\ copied_returns = EmptyRecord
    /\ returns = <<>>
    /\ ep_lens = <<>>
    /\ cum_episode_lengths = <<>>
    /\ steps_show = <<>>
    /\ rets = <<>>
    /\ hl11 = [xdata |-> <<>>, ydata |-> <<>>]
    /\ ax2 = [xlim |-> <<0, 1>>, ylim |-> <<<<0, 1>>, <<1, 1>>>>]
    /\ saved = 0

\* main up to line 85: the flag and the shared record exist, nothing is started
Init ==
    /\ main_pc = "start"
    /\ cb_pc = "idle"
    /\ seg = NoSeg
    /\ shared_returns = EmptyRecord
    /\ plot_running = 1
    /\ env_closed = FALSE
    /\ pp_pc = "not_started"
    /\ PlotLocalsInit

-----------------------------------------------------------------------------
(* main *)

\* lines 87-88
StartPlotter ==
    /\ main_pc = "start"
    /\ main_pc' = "learn"
    /\ pp_pc' = "setup"
    /\ UNCHANGED <<cb_pc, seg, shared_returns, plot_running, env_closed, plot_locals, saved>>

\* kindred_callback, called by learn with the episodes of one batch
CallbackLock ==
    /\ main_pc = "learn"
    /\ cb_pc = "idle"
    /\ \E s \in Segs(MaxEpisodes - Len(shared_returns.episodic_returns)) :
          /\ Len(s.ep_rets) = Len(s.ep_lens)
          /\ seg' = s
    /\ shared_returns' = [shared_returns EXCEPT !.write_lock = TRUE]
    /\ cb_pc' = "locked"
    /\ UNCHANGED <<main_pc, plot_running, env_closed, pp_pc, plot_locals, saved>>

CallbackReturns ==
    /\ main_pc = "learn"
    /\ cb_pc = "locked"
    /\ shared_returns' = [shared_returns EXCEPT !.episodic_returns = @ \o seg.ep_rets]
    /\ cb_pc' = "returns_added"
    /\ UNCHANGED <<main_pc, seg, plot_running, env_closed, pp_pc, plot_locals, saved>>

CallbackLengths ==
    /\ main_pc = "learn"
    /\ cb_pc = "returns_added"
    /\ shared_returns' = [shared_returns EXCEPT !.episodic_lengths = @ \o seg.ep_lens]
    /\ cb_pc' = "lengths_added"
    /\ UNCHANGED <<main_pc, seg, plot_running, env_closed, pp_pc, plot_locals, saved>>

CallbackUnlock ==
    /\ main_pc = "learn"
    /\ cb_pc = "lengths_added"
    /\ shared_returns' = [shared_returns EXCEPT !.write_lock = FALSE]
    /\ cb_pc' = "idle"
    /\ seg' = NoSeg
    /\ UNCHANGED <<main_pc, plot_running, env_closed, pp_pc, plot_locals, saved>>

\* lines 94-105: learn returns
LearnReturn ==
    /\ main_pc = "learn"
    /\ cb_pc = "idle"
    /\ main_pc' = "set_flag"
    /\ UNCHANGED <<cb_pc, seg, shared_returns, plot_running, env_closed, pp_pc, plot_locals, saved>>

\* the call wrapped in try/finally: the flag is cleared before the failure propagates
LearnFail_finally ==
    /\ main_pc = "learn"
    /\ main_pc' = "failed"
    /\ plot_running' = 0
    /\ UNCHANGED <<cb_pc, seg, shared_returns, env_closed, pp_pc, plot_locals, saved>>

\* lines 94-105: learn (or an environment call under it) raises; nothing catches it
LearnFail ==
    /\ main_pc = "learn"
    /\ main_pc' = "failed"
    /\ UNCHANGED <<cb_pc, seg, shared_returns, plot_running, env_closed, pp_pc, plot_locals, saved>>

\* line 108
SetFlag ==
    /\ main_pc = "set_flag"
    /\ plot_running' = 0
    /\ main_pc' = "sleep"
    /\ UNCHANGED <<cb_pc, seg, shared_returns, env_closed, pp_pc, plot_locals, saved>>

\* line 109
GraceSleep ==
    /\ main_pc = "sleep"
    /\ main_pc' = "join"
    /\ UNCHANGED <<cb_pc, seg, shared_returns, plot_running, env_closed, pp_pc, plot_locals, saved>>

\* the plotting process has exited, normally or by an uncaught exception
Exited == pp_pc \in {"done", "crashed"}

\* a join that gives up waiting: returns although the process is still running
Join_nowait ==
    /\ main_pc = "join"
    /\ main_pc' = "close"
    /\ UNCHANGED <<cb_pc, seg, shared_returns, plot_running, env_closed, pp_pc, plot_locals, saved>>

\* line 110: pp.join() returns once the process has exited
Join ==
    /\ main_pc = "join"
    /\ Exited
    /\ main_pc' = "close"
    /\ UNCHANGED <<cb_pc, seg, shared_returns, plot_running, env_closed, pp_pc, plot_locals, saved>>

\* line 113
Close ==
    /\ main_pc = "close"
    /\ env_closed' = TRUE
    /\ main_pc' = "done"
    /\ UNCHANGED <<cb_pc, seg, shared_returns, plot_running, pp_pc, plot_locals, saved>>

-----------------------------------------------------------------------------
(* plot_dxl_reacher *)

\* lines 125-143
Setup ==
    /\ pp_pc = "setup"
    /\ old_size' = Len(shared_returns.episodic_returns)
    /\ pp_pc' = "loop"
    /\ UNCHANGED <<main_vars, copied_returns, returns, ep_lens, cum_episode_lengths,
                   steps_show, rets, hl11, ax2, saved>>

\* line 144, flag truthy
LoopEnter ==
    /\ pp_pc = "loop"
    /\ plot_running # 0
    /\ pp_pc' = "env"
    /\ UNCHANGED <<main_vars, plot_locals, saved>>

\* line 144, flag 0
LoopExit ==
    /\ pp_pc = "loop"
    /\ plot_running = 0
    /\ pp_pc' = "save"
    /\ UNCHANGED <<main_vars, plot_locals, saved>>

\* lines 145-153: the env fields are sampled for the first chart
EnvRead ==
    /\ pp_pc = "env"
    /\ pp_pc' = "copy"
    /\ UNCHANGED <<main_vars, plot_locals, saved>>

\* line 157
Copy ==
    /\ pp_pc = "copy"
    /\ copied_returns' = shared_returns
    /\ pp_pc' = "check"
    /\ UNCHANGED <<main_vars, old_size, returns, ep_lens, cum_episode_lengths,
                   steps_show, rets, hl11, ax2, saved>>

\* the write_lock test left out of line 158
NewData_nolock == Len(copied_returns.episodic_returns) > old_size

\* line 158
NewData ==
    /\ ~copied_returns.write_lock
    /\ Len(copied_returns.episodic_returns) > old_size

\* lines 158-185, condition true
Recompute ==
    /\ pp_pc = "check"
    /\ NewData
    /\ returns' = copied_returns.episodic_returns
    /\ old_size' = Len(copied_returns.episodic_returns)
    /\ ep_lens' = EpLens(copied_returns)
    /\ cum_episode_lengths' = cumsum(ep_lens')
    /\ IF Last(cum_episode_lengths') >= x_tick
       THEN /\ steps_show' = StepsShow(cum_episode_lengths')
            /\ IF Len(cum_episode_lengths') # Len(returns')
               THEN \* line 176: the mask does not fit the array, IndexError
                    /\ rets' = <<>>
                    /\ UNCHANGED <<hl11, ax2>>
                    /\ pp_pc' = "crashed"
               ELSE /\ rets' = RetsLoop(returns', cum_episode_lengths', 0, Len(steps_show'))
                    /\ hl11' = [xdata |-> XData(rets'), ydata |-> rets']
                    /\ IF rets' = <<>>
                       THEN \* line 184: np.max of an empty list, ValueError
                            /\ ax2' = [ax2 EXCEPT !.xlim = <<x_tick, Len(rets') * x_tick>>]
                            /\ pp_pc' = "crashed"
                       ELSE /\ ax2' = [xlim |-> <<x_tick, Len(rets') * x_tick>>,
                                       ylim |-> YLim(rets')]
                            /\ pp_pc' = "plotted"
       ELSE /\ UNCHANGED <<steps_show, rets, hl11, ax2>>
            /\ pp_pc' = "plotted"
    /\ UNCHANGED <<main_vars, copied_returns, saved>>

\* line 158, condition false
Skip ==
    /\ pp_pc = "check"
    /\ ~NewData
    /\ pp_pc' = "sleep"
    /\ UNCHANGED <<main_vars, plot_locals, saved>>

\* lines 186-189
Draw ==
    /\ pp_pc \in {"plotted", "sleep"}
    /\ pp_pc' = "loop"
    /\ UNCHANGED <<main_vars, plot_locals, saved>>

\* lines 192-193
Save ==
    /\ pp_pc = "save"
    /\ saved' = saved + 1
    /\ pp_pc' = "done"
    /\ UNCHANGED <<main_vars, plot_locals>>

-----------------------------------------------------------------------------
Callback == CallbackLock \/ CallbackReturns \/ CallbackLengths \/ CallbackUnlock

Shutdown == GraceSleep \/ Join \/ Close

PlotLoop == LoopEnter \/ LoopExit \/ EnvRead \/ Copy \/ Recompute \/ Skip \/ Draw \/ Save

Next == StartPlotter \/ Callback \/ LearnReturn \/ LearnFail \/ SetFlag \/ Shutdown
           \/ Setup \/ PlotLoop

Spec == Init /\ [][Next]_vars

(* The plotting routine on an arbitrary record: the routine has finished its  *)
(* setup on an empty record, the record has since been filled, and the        *)
(* caller is about to clear the flag.                                         *)
PlotRecords ==
    {[write_lock |-> FALSE, episodic_returns |-> r, episodic_lengths |-> l] :
        r \in SeqsOf(PlotRets, MaxEpisodes),
        l \in SeqsOf(PlotLens, MaxEpisodes)}

\* a length recorded for every return, as the callback leaves the record
RecordedRecords == {R \in PlotRecords : Len(R.episodic_lengths) = Len(R.episodic_returns)}

\* returns with no lengths at all: the case of line 168
FallbackRecords == {R \in PlotRecords : R.episodic_lengths = <<>>}

PlotAt(Records) ==
    /\ main_pc = "set_flag"
    /\ cb_pc = "idle"
    /\ seg = NoSeg
    /\ shared_returns \in Records
    /\ plot_running = 1
    /\ env_closed = FALSE
    /\ pp_pc = "loop"
    /\ PlotLocalsInit

PlotInit == PlotAt(RecordedRecords \cup FallbackRecords)

RecordedInit == PlotAt(RecordedRecords)

PlotNext == SetFlag \/ PlotLoop

SpecPlot == PlotInit /\ [][PlotNext]_vars

SpecRecorded == RecordedInit /\ [][PlotNext]_vars

-----------------------------------------------------------------------------
(* Properties *)

\* lines 160-185 have just run on copied_returns without raising
Plotted == pp_pc = "plotted"

\* the curve block (lines 172-185) was entered on the snapshot the locals hold
CurveEntered ==
    /\ pp_pc \in {"plotted", "crashed"}
    /\ Len(cum_episode_lengths) = Len(returns)
    /\ Last(cum_episode_lengths) >= x_tick

\* the returns at the cumulative lengths strictly between lo and hi, in order
RECURSIVE Between(_, _, _, _)
Between(rs, cs, lo, hi) ==
    IF rs = <<>> THEN <<>>
    ELSE (IF lo < cs[1] /\ cs[1] < hi THEN <<rs[1]>> ELSE <<>>)
            \o Between(Tail(rs), Tail(cs), lo, hi)

\* what iteration k (1-based) of the loop selected, and what it averaged
WindowAt(k) == rets_in_window(returns, cum_episode_lengths, k - 1)
AveragedAt(k) == IF Appends(WindowAt(k)) THEN WindowAt(k) ELSE <<>>

\* the sample points whose iteration appended a mean, in order
RECURSIVE Contributing(_)
Contributing(k) ==
    IF k > Len(steps_show) THEN <<>>
    ELSE (IF Appends(WindowAt(k)) THEN <<steps_show[k]>> ELSE <<>>) \o Contributing(k + 1)

(* C1: for every sample point s the returns averaged for s are exactly the    *)
(* recorded returns whose cumulative length c satisfies s - 5000 < c < s.     *)
C1_AveragedWindow ==
    (Plotted /\ CurveEntered) =>
        \A k \in 1..Len(steps_show) :
            AveragedAt(k) = Between(returns, cum_episode_lengths,
                                    steps_show[k] - 5000, steps_show[k])

(* C2: a sample point contributes no value if and only if no return lies in   *)
(* its window; every point with a non-empty window contributes one mean.      *)
C2_SkippedIffEmpty ==
    (Plotted /\ CurveEntered) =>
        Len(rets) = Cardinality({k \in 1..Len(steps_show) : WindowAt(k) # <<>>})

(* C3: when the last cumulative length L is at least 1000 the sample axis is  *)
(* 1000, 2000, ..., floor(L/1000)*1000; when L < 1000 the recomputation       *)
(* computes no sample point and leaves the learning curve as it was.          *)
C3_SampleAxis ==
    /\ [](CurveEntered =>
            steps_show = [k \in 1..(Last(cum_episode_lengths) \div 1000) |-> 1000 * k])
    /\ [][(pp_pc = "check" /\ pp_pc' \in {"plotted", "crashed"}
             /\ Last(cum_episode_lengths') < 1000)
            => (pp_pc' = "plotted" /\ UNCHANGED <<steps_show, rets, hl11, ax2>>)]_vars

C3_Witness ==
    /\ Plotted
    /\ cum_episode_lengths = <<1000, 2000, 3000>>
    /\ steps_show = <<1000, 2000, 3000>>

(* C4: with no recorded lengths, the step position compared against the       *)
(* window bounds for the episode with 0-based index k is batch_size * k.      *)
C4_FallbackPositions ==
    (pp_pc \in {"plotted", "crashed"} /\ copied_returns.episodic_lengths = <<>>)
        => \A k \in 0..(Len(returns) - 1) : cum_episode_lengths[k + 1] = batch_size * k

(* C5: the shutdown steps of main happen in the order learn returns, flag 1   *)
(* to 0, grace sleep, join, env.close(); the flag is 1 during training, and   *)
(* the environment is closed only once the plotting process has exited.       *)
C5_MainSteps ==
    {<<"start", "learn">>, <<"learn", "set_flag">>, <<"learn", "failed">>,
     <<"set_flag", "sleep">>, <<"sleep", "join">>, <<"join", "close">>,
     <<"close", "done">>}

C5_ShutdownOrder ==
    /\ [](/\ (plot_running = 0) <=> (main_pc \in {"sleep", "join", "close", "done"})
          /\ main_pc \in {"close", "done"} => Exited
          /\ env_closed <=> (main_pc = "done")
          /\ env_closed => pp_pc \notin {"setup", "loop", "env", "copy", "check",
                                         "plotted", "sleep", "save"})
    /\ [][main_pc' # main_pc => <<main_pc, main_pc'>> \in C5_MainSteps]_vars

C5_Witness == main_pc = "done" /\ env_closed /\ pp_pc = "done" /\ saved = 1

(* C6: once the flag is 0 the plotting process leaves its loop, saves the     *)
(* image exactly once and terminates, so that join returns: whenever the join *)
(* has returned, the image has been saved exactly once.                       *)
C6_SavedOnceBeforeJoinReturns ==
    main_pc \in {"close", "done"} => (pp_pc = "done" /\ saved = 1)

C8_ConsistentSnapshot ==
    [][(pp_pc = "check" /\ pp_pc' \in {"plotted", "crashed"}) =>
          /\ ~copied_returns.write_lock
          /\ Len(copied_returns.episodic_returns) > old_size
          /\ Len(copied_returns.episodic_lengths) = Len(copied_returns.episodic_returns)
          /\ returns' = copied_returns.episodic_returns
          /\ ep_lens' = copied_returns.episodic_lengths]_vars

C8_Witness ==
    /\ Plotted
    /\ returns = copied_returns.episodic_returns
    /\ shared_returns.write_lock
    /\ Len(shared_returns.episodic_returns) > Len(shared_returns.episodic_lengths)
    /\ Len(shared_returns.episodic_lengths) = Len(returns)

(* C9: the x coordinate at which each averaged return is drawn is the sample  *)
(* point at which that average was computed.                                  *)
C9_DrawnAtSamplePoint ==
    (Plotted /\ CurveEntered) => hl11.xdata = Contributing(1)

(* C10: a recomputation with last cumulative length at least 1000 has a       *)
(* non-empty list of averages at the rescale, and does not raise.             *)
C10_RescaleNeverFails ==
    CurveEntered => (rets # <<>> /\ pp_pc # "crashed")

=============================================================================
